---- MODULE Spec2Model ----
(***************************************************************************)
(* The iDRAC cluster controller of lisa's baremetal orchestrator            *)
(* (lisa/sut_orchestrator/baremetal/cluster/idrac.py) as a state machine.   *)
(*                                                                         *)
(* One step of the model is one blocking request to the BMC (or one turn   *)
(* of a polling loop).  Every thread of control carries its continuation   *)
(* in pc: the sequence of the calls that remain to be made, head first.    *)
(* A call that returns drops its label; a call to a helper puts the        *)
(* helper's labels in front; an exception empties pc (the module has no    *)
(* try/except/finally, so an exception unwinds the whole operation).       *)
(* What the BMC answers is an input of the step, drawn from small sets.    *)
(***************************************************************************)
EXTENDS Integers, Sequences, FiniteSets, TLC

VARIABLES
    th,               \* per thread: continuation, locals and outcome
    redfish_instance, \* Idrac.redfish_instance: the session handle (0: unset)
    live,             \* sessions that are live on the BMC
    nsessions,        \* sessions the BMC has handed out so far
    log,              \* requests the BMC received in the current operation
    lastReq,          \* the latest request of any kind, monitor polls included
    nops,             \* operations started so far
    iso_http_url,     \* client.iso_http_url of the runbook ("" when missing)
    img_file,         \* the screenshot file under saved_path
    shadow,           \* a second controller, set aside while this one runs
    mark,             \* what the latest step of the first invocation showed
    phase             \* whose turn it is when two invocations are compared

vars == << th, redfish_instance, live, nsessions, log, lastReq, nops,
           iso_http_url, img_file, shadow, mark, phase >>

-----------------------------------------------------------------------------
(* Bounds of the model *)

\* operations run on one controller
MaxOps == 2
\* in-progress reports one task monitor may give
MaxPolls == 3
\* unsuccessful polls of check_till_timeout before its deadline passes
MaxWaitPolls == 2
\* a screenshot has at most MaxShotLen bytes
MaxShotLen == 3

(* Program constants *)

\* _wait_for_completion(response, timeout=600)
Timeout == 600
\* time.sleep(retry_time if retry_time else 5)
DefaultSleep == 5
\* task.retry_after is None: the monitor gave no Retry-After hint
NoRetry == -1

Threads == {1, 2}
\* the thread that runs the operations when they run one after another
Sequential == {1}

Statuses == {200, 202, 204, 404, 500}
\* response.status not in [200, 202, 204]
OkStatuses == {200, 202, 204}
RetryAfters == {NoRetry, 0, 300}
PowerStates == {"On", "Off", "PoweringOff"}
StopStates == {"Shutdown", "Hibernate"}
CaptureStates == {"Enabled", "Disabled"}
IsoUrls == {"", "http://images/os.iso"}

\* redfish RestResponse.is_processing: the request was accepted (202) and its
\* task is still running
is_processing(r) == r.status = 202

\* the bytes of a screenshot, and base64 text as the values of its characters:
\* 0..63 for the alphabet, B64Pad for '='
ByteSamples == {0, 77, 255}
BytesUpTo(n) == UNION {[1..k -> ByteSamples] : k \in 0..n}
B64Pad == 64

RECURSIVE b64encode(_)
\* base64 of the bytes b: three bytes make four characters, the last group
\* of one or two bytes is padded
b64encode(b) ==
    IF Len(b) = 0 THEN << >>
    ELSE IF Len(b) = 1
    THEN << b[1] \div 4, (b[1] % 4) * 16, B64Pad, B64Pad >>
    ELSE IF Len(b) = 2
    THEN << b[1] \div 4, (b[1] % 4) * 16 + b[2] \div 16, (b[2] % 16) * 4,
            B64Pad >>
    ELSE << b[1] \div 4, (b[1] % 4) * 16 + b[2] \div 16,
            (b[2] % 16) * 4 + b[3] \div 64, b[3] % 64 >>
         \o b64encode(SubSeq(b, 4, Len(b)))

\* mutant: the data is written as it came, not decoded
b64decode_Raw(s) == s

RECURSIVE b64decode(_)
\* line 78, base64.b64decode: four characters make three bytes, fewer when
\* the group is padded
b64decode(s) ==
    IF Len(s) < 4 THEN << >>
    ELSE (IF s[3] = B64Pad
          THEN << s[1] * 4 + s[2] \div 16 >>
          ELSE IF s[4] = B64Pad
          THEN << s[1] * 4 + s[2] \div 16, (s[2] % 16) * 16 + s[3] \div 4 >>
          ELSE << s[1] * 4 + s[2] \div 16, (s[2] % 16) * 16 + s[3] \div 4,
                  (s[3] % 4) * 64 + s[4] >>)
         \o b64decode(SubSeq(s, 5, Len(s)))

\* a response: its status and, when its body has the key ServerScreenShotFile
\* (keyed), the value under it
NoResponse == [status |-> 0, keyed |-> FALSE, shot |-> << >>]
Responses == [status : Statuses, keyed : {FALSE}, shot : {<< >>}]
\* the answers to ExportServerScreenShot: a 200 carries the base64 text of the
\* screenshot, any other answer has no such key
ShotResponses ==
    {[status |-> 200, keyed |-> TRUE, shot |-> b64encode(b)] :
        b \in BytesUpTo(MaxShotLen)} \cup {r \in Responses : r.status # 200}

\* the screenshot file of the running call: not written, or its bytes
NoFile == [exists |-> FALSE, bytes |-> << >>]
NoTask == [status |-> 0, retry_after |-> NoRetry]
\* what response.monitor() can return: a task that still runs, with or without
\* a retry hint, or one that ended with a status
Tasks == {k \in [status : Statuses, retry_after : RetryAfters] :
             is_processing(k) \/ k.retry_after = NoRetry}

L(l) == [l |-> l, a |-> ""]
LA(l, a) == [l |-> l, a |-> a]

NoReq == [k |-> "", a |-> "", s |-> 0, live |-> TRUE]

Idle == [pc |-> << >>, op |-> "", mode |-> "", outcome |-> "none", err |-> 0,
         response |-> NoResponse, task |-> NoTask, elapsed |-> 0,
         nsleep |-> 0, nquery |-> 0, nproc |-> 0, slept |-> 0,
         hint |-> NoRetry, waited |-> "", polls |-> 0]

\* a controller as constructed, before any operation
Fresh ==
    [th |-> [t \in Threads |-> Idle], redfish_instance |-> 0, live |-> {},
     nsessions |-> 0, log |-> << >>, lastReq |-> NoReq, nops |-> 0,
     img_file |-> NoFile]

NoObs ==
    [th |-> Idle, k |-> "", a |-> "", live |-> TRUE, fresh |-> TRUE, n |-> 0,
     file |-> NoFile]

-----------------------------------------------------------------------------
(* Control helpers *)

At(t, l) == th[t].pc # << >> /\ Head(th[t].pc).l = l
Arg(t) == Head(th[t].pc).a
Rest(t) == Tail(th[t].pc)

\* continue with the continuation p; an empty one is a normal return
Goto(r, p) ==
    [r EXCEPT !.pc = p, !.outcome = IF p = << >> THEN "returned" ELSE @]

\* mutant: a handler ejects the media before the error goes on
Raise_Rollback(r, exc, status) ==
    [r EXCEPT !.pc = << L("_eject_virtual_media") >>, !.outcome = exc,
              !.err = status]

\* raise exc: nothing catches it
Raise(r, exc, status) ==
    [r EXCEPT !.pc = << >>, !.outcome = exc, !.err = status]

\* the locals of _wait_for_completion (task, timer) die when it has returned
Forget(r) ==
    [r EXCEPT !.task = NoTask, !.elapsed = 0, !.nsleep = 0, !.nquery = 0,
              !.nproc = 0, !.slept = 0, !.hint = NoRetry, !.waited = ""]

\* a step of the caller
Set(t, r) == th' = [th EXCEPT ![t] = Forget(r)]

\* a step inside _wait_for_completion
SetW(t, r) == th' = [th EXCEPT ![t] = r]

\* a request on the controller's current session handle
Req(k, a) ==
    [k |-> k, a |-> a, s |-> redfish_instance, live |-> redfish_instance \in live]

Send(k, a) ==
    /\ log' = Append(log, Req(k, a))
    /\ lastReq' = Req(k, a)

\* an entry point is called: the thread starts from the record r
Enter(t, r) ==
    /\ th[t].pc = << >>
    /\ nops < MaxOps
    /\ nops' = nops + 1
    /\ Set(t, r)
    /\ log' = IF \A u \in Threads : th[u].pc = << >> THEN << >> ELSE log
    /\ lastReq' = IF \A u \in Threads : th[u].pc = << >> THEN NoReq ELSE lastReq
    /\ img_file' = IF \A u \in Threads : th[u].pc = << >> THEN NoFile
                   ELSE img_file
    /\ UNCHANGED << redfish_instance, live, nsessions, iso_http_url >>

\* the entry point op, called with the argument mode, runs body
BeginWith(t, op, mode, body) ==
    Enter(t, [Idle EXCEPT !.op = op, !.mode = mode, !.outcome = "running",
                          !.pc = body])

Begin(t, op, body) == BeginWith(t, op, "", body)

-----------------------------------------------------------------------------
(* Session: Idrac.login / Idrac.logout *)

\* line 187, taken on its own when operations overlap: the handle becomes a
\* new client that holds no session yet (0)
login_client(t) ==
    /\ At(t, "login")
    /\ redfish_instance' = 0
    /\ Set(t, [th[t] EXCEPT !.pc = << L("login_session") >> \o Rest(t)])
    /\ UNCHANGED << live, nsessions, log, lastReq, nops, iso_http_url,
                    img_file >>

\* line 192, taken on its own when operations overlap: the client the handle
\* names now (whoever created it) opens a session and keeps its key
login_session(t) ==
    /\ At(t, "login_session")
    /\ \E accepted \in BOOLEAN :
          IF accepted
          THEN /\ nsessions' = nsessions + 1
               /\ redfish_instance' = nsessions + 1
               /\ live' = live \cup {nsessions + 1}
               /\ log' = Append(log, [k |-> "login", a |-> "",
                                      s |-> nsessions + 1, live |-> TRUE])
               /\ lastReq' = [k |-> "login", a |-> "", s |-> nsessions + 1,
                              live |-> TRUE]
               /\ Set(t, Goto(th[t], Rest(t)))
          ELSE /\ log' = Append(log, [k |-> "login", a |-> "", s |-> 0,
                                      live |-> FALSE])
               /\ lastReq' = [k |-> "login", a |-> "", s |-> 0,
                              live |-> FALSE]
               /\ Set(t, Raise(th[t], "AuthenticationError", 0))
               /\ UNCHANGED << redfish_instance, live, nsessions >>
    /\ UNCHANGED << nops, iso_http_url, img_file >>

\* mutant: a session handle left by an earlier operation is used again
login_Reuse(t) ==
    /\ At(t, "login")
    /\ IF redfish_instance # 0
       THEN /\ Set(t, Goto(th[t], Rest(t)))
            /\ UNCHANGED << redfish_instance, live, nsessions, log, lastReq >>
       ELSE /\ nsessions' = nsessions + 1
            /\ redfish_instance' = nsessions + 1
            /\ \E accepted \in BOOLEAN :
                  /\ live' = IF accepted THEN live \cup {nsessions + 1}
                             ELSE live
                  /\ Set(t, IF accepted THEN Goto(th[t], Rest(t))
                            ELSE Raise(th[t], "AuthenticationError", 0))
            /\ log' = Append(log, [k |-> "login", a |-> "",
                                   s |-> nsessions + 1, live |-> TRUE])
            /\ lastReq' = [k |-> "login", a |-> "", s |-> nsessions + 1,
                           live |-> TRUE]
    /\ UNCHANGED << nops, iso_http_url, img_file >>

login(t) ==
    /\ At(t, "login")
    /\ nsessions' = nsessions + 1
    /\ redfish_instance' = nsessions + 1
    /\ \E accepted \in BOOLEAN :
          /\ live' = IF accepted THEN live \cup {nsessions + 1} ELSE live
          /\ Set(t, IF accepted THEN Goto(th[t], Rest(t))
                    ELSE Raise(th[t], "AuthenticationError", 0))
    /\ log' = Append(log, [k |-> "login", a |-> "", s |-> nsessions + 1,
                           live |-> TRUE])
    /\ lastReq' = [k |-> "login", a |-> "", s |-> nsessions + 1, live |-> TRUE]
    /\ UNCHANGED << nops, iso_http_url, img_file >>

\* mutant: logout closes every session the controller has opened
logout_All(t) ==
    /\ At(t, "logout")
    /\ Send("logout", "")
    /\ live' = {}
    /\ Set(t, Goto(th[t], Rest(t)))
    /\ UNCHANGED << redfish_instance, nsessions, nops, iso_http_url, img_file >>

logout(t) ==
    /\ At(t, "logout")
    /\ Send("logout", "")
    /\ live' = live \ {redfish_instance}
    /\ Set(t, Goto(th[t], Rest(t)))
    /\ UNCHANGED << redfish_instance, nsessions, nops, iso_http_url, img_file >>

-----------------------------------------------------------------------------
(* Task poller: Idrac._wait_for_completion *)

\* mutant: the retry interval is ignored, every sleep lasts 5 seconds
SleepTime_Ignored(retry_time) == DefaultSleep

\* time.sleep(retry_time if retry_time else 5): None and 0 are both falsy
SleepTime(retry_time) ==
    IF retry_time # NoRetry /\ retry_time # 0 THEN retry_time ELSE DefaultSleep

\* the status the final check reads: that of the response, not of the task
CheckedStatus(r) == r.response.status

\* lines 208-209
wfc_check(t, r) ==
    IF CheckedStatus(r) \notin OkStatuses
    THEN SetW(t, Raise([r EXCEPT !.waited = "raised"], "LisaException",
                       CheckedStatus(r)))
    ELSE SetW(t, Goto([r EXCEPT !.waited = "returned"], Rest(t)))

\* what the monitor may answer.  A task may stay in progress for ever; after
\* MaxPolls in-progress answers it goes on only with a retry interval so long
\* that two sleeps pass the timeout
MonitorResults(r) ==
    {k \in Tasks : is_processing(k) =>
        \/ r.nproc < MaxPolls
        \/ 2 * SleepTime(k.retry_after) >= Timeout}

Polled(r, k) ==
    [r EXCEPT !.task = k, !.nquery = @ + 1,
              !.nproc = IF is_processing(k) THEN @ + 1 ELSE @]

\* mutant: the monitor is queried whatever the response says
_wait_for_completion_AlwaysMonitor(t) ==
    /\ At(t, "_wait_for_completion")
    /\ LET r == Forget(th[t])
       IN  /\ \E k \in MonitorResults(r) :
                 SetW(t, [Polled(r, k) EXCEPT
                            !.pc = << L("wfc_loop") >> \o Rest(t)])
           /\ lastReq' = Req("monitor", "")
    /\ UNCHANGED << redfish_instance, live, nsessions, log, nops,
                    iso_http_url, img_file >>

\* lines 200-202: the first monitor query, or straight to the final check
_wait_for_completion(t) ==
    /\ At(t, "_wait_for_completion")
    /\ LET r == Forget(th[t])
       IN  IF is_processing(th[t].response)
           THEN /\ \E k \in MonitorResults(r) :
                      SetW(t, [Polled(r, k) EXCEPT
                                 !.pc = << L("wfc_loop") >> \o Rest(t)])
                /\ lastReq' = Req("monitor", "")
           ELSE /\ wfc_check(t, r)
                /\ UNCHANGED lastReq
    /\ UNCHANGED << redfish_instance, live, nsessions, log, nops,
                    iso_http_url, img_file >>

\* mutant: the loop has no deadline
LoopCondition_NoTimeout(r) == is_processing(r.task)

\* line 203
LoopCondition(r) == is_processing(r.task) /\ r.elapsed < Timeout

\* more sleeps than any wait of at most Timeout seconds takes in this model
MaxSleeps == MaxPolls + 3

\* lines 203-209: one turn of the loop (sleep, query again), or the final check
wfc_loop(t) ==
    /\ At(t, "wfc_loop")
    /\ IF LoopCondition(th[t])
       THEN /\ th[t].nsleep < MaxSleeps
            /\ \E k \in MonitorResults(th[t]) :
                  SetW(t, Polled([th[t] EXCEPT
                            !.hint = th[t].task.retry_after,
                            !.slept = SleepTime(th[t].task.retry_after),
                            !.elapsed = @ + SleepTime(th[t].task.retry_after),
                            !.nsleep = @ + 1], k))
            /\ lastReq' = Req("monitor", "")
       ELSE /\ wfc_check(t, th[t])
            /\ UNCHANGED lastReq
    /\ UNCHANGED << redfish_instance, live, nsessions, log, nops,
                    iso_http_url, img_file >>

-----------------------------------------------------------------------------
(* The protocol calls of Idrac *)

\* a POST answered from rs whose response goes through the task poller
PostAndWaitFrom(t, k, a, rs) ==
    /\ Send(k, a)
    /\ \E r \in rs :
          Set(t, [th[t] EXCEPT !.response = r,
                     !.pc = << L("_wait_for_completion") >> \o Rest(t)])
    /\ UNCHANGED << redfish_instance, live, nsessions, nops, iso_http_url,
                    img_file >>

PostAndWait(t, k, a) == PostAndWaitFrom(t, k, a, Responses)

\* lines 180-184: a GET of the system resource that answers p
get_power_state(p) == Send("get_power_state", p)

\* lines 171-178
reset(t) ==
    /\ At(t, "reset")
    /\ PostAndWait(t, "reset", Arg(t))

\* lines 211-220
_insert_virtual_media(t) ==
    /\ At(t, "_insert_virtual_media")
    /\ PostAndWait(t, "insert", iso_http_url)

\* mutant: every eject response goes to the poller
EjectAwaited_Always(r) == TRUE

\* line 231: the poller sees the response only when the eject was accepted
EjectAwaited(r) == r.status \in OkStatuses

\* lines 222-232
_eject_virtual_media(t) ==
    /\ At(t, "_eject_virtual_media")
    /\ Send("eject", "")
    /\ \E r \in Responses :
          Set(t, [th[t] EXCEPT !.response = r,
                     !.pc = IF EjectAwaited(r)
                            THEN << L("_wait_for_completion") >> \o Rest(t)
                            ELSE Rest(t)])
    /\ UNCHANGED << redfish_instance, live, nsessions, nops, iso_http_url,
                    img_file >>

\* lines 234-261
_change_boot_order_once(t) ==
    /\ At(t, "_change_boot_order_once")
    /\ PostAndWait(t, "import", Arg(t))

\* lines 264-271: read the attributes, PATCH when capture is disabled
_enable_serial_console(t) ==
    /\ At(t, "_enable_serial_console")
    /\ \E v \in CaptureStates :
          /\ Send("get_attributes", v)
          /\ Set(t, [th[t] EXCEPT !.pc =
                       (IF v = "Disabled" THEN << L("esc_patch") >> ELSE << >>)
                       \o << L("esc_verify") >> \o Rest(t)])
    /\ UNCHANGED << redfish_instance, live, nsessions, nops, iso_http_url,
                    img_file >>

\* lines 268-271: the PATCH; its response is never looked at
esc_patch(t) ==
    /\ At(t, "esc_patch")
    /\ Send("patch_attributes", "Enabled")
    /\ \E r \in Responses : Set(t, Goto([th[t] EXCEPT !.response = r], Rest(t)))
    /\ UNCHANGED << redfish_instance, live, nsessions, nops, iso_http_url,
                    img_file >>

\* mutant: the second read is not checked
esc_verify_Unchecked(t) ==
    /\ At(t, "esc_verify")
    /\ \E v \in CaptureStates :
          /\ Send("get_attributes", v)
          /\ Set(t, Goto(th[t], Rest(t)))
    /\ UNCHANGED << redfish_instance, live, nsessions, nops, iso_http_url,
                    img_file >>

\* lines 272-278: read again and raise unless capture is enabled
esc_verify(t) ==
    /\ At(t, "esc_verify")
    /\ \E v \in CaptureStates :
          /\ Send("get_attributes", v)
          /\ Set(t, IF v = "Enabled" THEN Goto(th[t], Rest(t))
                    ELSE Raise(th[t], "LisaException", 0))
    /\ UNCHANGED << redfish_instance, live, nsessions, nops, iso_http_url,
                    img_file >>

\* lines 162-169
get_server_screen_shot(t) ==
    /\ At(t, "get_server_screen_shot")
    /\ PostAndWaitFrom(t, "export_screenshot", "ServerScreenShot",
                       ShotResponses)

\* lines 150-155: the export POST; the wait that follows looks at this response
get_serial_console_log(t) ==
    /\ At(t, "get_serial_console_log")
    /\ Send("export_serial", "")
    /\ \E r \in Responses :
          Set(t, [th[t] EXCEPT !.response = r,
                     !.pc = << LA("check_till_timeout", "200") >> \o Rest(t)])
    /\ UNCHANGED << redfish_instance, live, nsessions, nops, iso_http_url,
                    img_file >>

\* lisa.util.check_till_timeout(func, timeout_message): evaluate func until it
\* holds; raise once the deadline has passed.  func is a power-state query
\* (deploy) or a look at the status of the export response (console log).
check_till_timeout(t) ==
    /\ At(t, "check_till_timeout")
    /\ \E p \in PowerStates :
          LET held == IF Arg(t) = "200" THEN th[t].response.status = 200
                      ELSE p = Arg(t)
          IN  /\ IF Arg(t) = "200" THEN UNCHANGED << log, lastReq >>
                 ELSE get_power_state(p)
              /\ Set(t, IF held
                        THEN Goto([th[t] EXCEPT !.polls = 0], Rest(t))
                        ELSE IF th[t].polls + 1 >= MaxWaitPolls
                        THEN Raise(th[t], "TimeoutError", 0)
                        ELSE [th[t] EXCEPT !.polls = @ + 1])
    /\ UNCHANGED << redfish_instance, live, nsessions, nops, iso_http_url,
                    img_file >>

-----------------------------------------------------------------------------
(* Idrac.deploy *)

\* mutant: the session is closed before the wait for On
DeployBody_EarlyLogout ==
    << L("login"),
       L("_eject_virtual_media"),
       L("assert_iso_http_url"),
       LA("_change_boot_order_once", "VCD-DVD"),
       L("deploy_power_off"),
       L("_insert_virtual_media"),
       LA("check_till_timeout", "Off"),
       L("_enable_serial_console"),
       LA("reset", "On"),
       L("logout"),
       LA("check_till_timeout", "On") >>

\* mutant: deploy returns without closing its session
DeployBody_NoLogout ==
    << L("login"),
       L("_eject_virtual_media"),
       L("assert_iso_http_url"),
       LA("_change_boot_order_once", "VCD-DVD"),
       L("deploy_power_off"),
       L("_insert_virtual_media"),
       LA("check_till_timeout", "Off"),
       L("_enable_serial_console"),
       LA("reset", "On"),
       LA("check_till_timeout", "On") >>

\* mutant: the machine is powered on without the wait for Off
DeployBody_NoOffWait ==
    << L("login"),
       L("_eject_virtual_media"),
       L("assert_iso_http_url"),
       LA("_change_boot_order_once", "VCD-DVD"),
       L("deploy_power_off"),
       L("_insert_virtual_media"),
       L("_enable_serial_console"),
       LA("reset", "On"),
       LA("check_till_timeout", "On"),
       L("logout") >>

\* lines 114-133, in program order
DeployBody ==
    << L("login"),
       L("_eject_virtual_media"),
       L("assert_iso_http_url"),
       LA("_change_boot_order_once", "VCD-DVD"),
       L("deploy_power_off"),
       L("_insert_virtual_media"),
       LA("check_till_timeout", "Off"),
       L("_enable_serial_console"),
       LA("reset", "On"),
       LA("check_till_timeout", "On"),
       L("logout") >>

deploy(t) == Begin(t, "deploy", DeployBody)

\* line 116
assert_iso_http_url(t) ==
    /\ At(t, "assert_iso_http_url")
    /\ Set(t, IF iso_http_url # "" THEN Goto(th[t], Rest(t))
              ELSE Raise(th[t], "AssertionError", 0))
    /\ UNCHANGED << redfish_instance, live, nsessions, log, lastReq, nops,
                    iso_http_url, img_file >>

\* lines 118-121
deploy_power_off(t) ==
    /\ At(t, "deploy_power_off")
    /\ \E p \in PowerStates :
          /\ get_power_state(p)
          /\ Set(t, Goto(th[t], (IF p = "Off" THEN << >>
                                 ELSE << LA("reset", "ForceOff") >>)
                                \o Rest(t)))
    /\ UNCHANGED << redfish_instance, live, nsessions, nops, iso_http_url,
                    img_file >>

-----------------------------------------------------------------------------
(* IdracStartStop *)

\* lines 42-47, after the hibernate check
StopBody ==
    << L("login"), L("stop_power_state"), LA("reset", "ForceOff"), L("logout") >>

\* mutant: the stop mode is not looked at, a hibernate stop powers off
_stop_Degrades(t) ==
    \E state \in StopStates : BeginWith(t, "stop", state, StopBody)

\* lines 35-42
_stop(t) ==
    \E state \in StopStates :
        IF state = "Hibernate"
        THEN Enter(t, [Idle EXCEPT !.op = "stop", !.mode = state,
                                   !.outcome = "NotImplementedError"])
        ELSE BeginWith(t, "stop", state, StopBody)

\* mutant: the reset is sent whatever the power state
EarlyReturn_Never(t, p, desired) == Set(t, Goto(th[t], Rest(t)))

\* the power state in which the operation has nothing to do and returns
EarlyReturn(t, p, desired) ==
    Set(t, IF p = desired THEN Goto(th[t], << >>) ELSE Goto(th[t], Rest(t)))

\* lines 43-45
stop_power_state(t) ==
    /\ At(t, "stop_power_state")
    /\ \E p \in PowerStates :
          /\ get_power_state(p)
          /\ EarlyReturn(t, p, "Off")
    /\ UNCHANGED << redfish_instance, live, nsessions, nops, iso_http_url,
                    img_file >>

\* lines 50-55
StartBody ==
    << L("login"), L("start_power_state"), LA("reset", "On"), L("logout") >>

_start(t) == Begin(t, "start", StartBody)

\* lines 51-53
start_power_state(t) ==
    /\ At(t, "start_power_state")
    /\ \E p \in PowerStates :
          /\ get_power_state(p)
          /\ EarlyReturn(t, p, "On")
    /\ UNCHANGED << redfish_instance, live, nsessions, nops, iso_http_url,
                    img_file >>

\* lines 58-60
RestartBody == << L("login"), LA("reset", "ForceRestart"), L("logout") >>

_restart(t) == Begin(t, "restart", RestartBody)

-----------------------------------------------------------------------------
(* IdracSerialConsole._get_console_log, Idrac.get_cluster_capabilities *)

\* mutant: the screenshot is taken whether or not a path was given
ConsoleBody_Always(saved_path) ==
    << L("login"), L("get_server_screen_shot"), L("write_screenshot"),
       L("get_serial_console_log"), L("logout") >>

\* lines 75-85
ConsoleBody(saved_path) ==
    << L("login") >>
    \o (IF saved_path
        THEN << L("get_server_screen_shot"), L("write_screenshot") >>
        ELSE << >>)
    \o << L("get_serial_console_log"), L("logout") >>

_get_console_log(t) ==
    \E saved_path \in BOOLEAN :
        BeginWith(t, "console", IF saved_path THEN "saved_path" ELSE "None",
                  ConsoleBody(saved_path))

\* line 169 and lines 78-82: read ServerScreenShotFile from the response,
\* decode it and write the bytes under saved_path
write_screenshot(t) ==
    /\ At(t, "write_screenshot")
    /\ IF th[t].response.keyed
       THEN /\ img_file' = [exists |-> TRUE,
                            bytes |-> b64decode(th[t].response.shot)]
            /\ Set(t, Goto(th[t], Rest(t)))
       ELSE /\ Set(t, Raise(th[t], "KeyError", 0))
            /\ UNCHANGED img_file
    /\ UNCHANGED << redfish_instance, live, nsessions, log, lastReq, nops,
                    iso_http_url >>

\* lines 136-148
CapabilitiesBody == << L("login"), L("get_system"), L("logout") >>

get_cluster_capabilities(t) == Begin(t, "capabilities", CapabilitiesBody)

\* lines 137-146
get_system(t) ==
    /\ At(t, "get_system")
    /\ Send("get_system", "")
    /\ Set(t, Goto(th[t], Rest(t)))
    /\ UNCHANGED << redfish_instance, live, nsessions, nops, iso_http_url,
                    img_file >>

-----------------------------------------------------------------------------
(* The controller after construction: no session, no operation running *)

Init ==
    /\ th = [t \in Threads |-> Idle]
    /\ redfish_instance = 0
    /\ live = {}
    /\ nsessions = 0
    /\ log = << >>
    /\ lastReq = NoReq
    /\ nops = 0
    /\ iso_http_url \in IsoUrls
    /\ img_file = NoFile
    /\ shadow = Fresh
    /\ mark = NoObs
    /\ phase = "first"

Step(t) ==
    \/ deploy(t)
    \/ _stop(t)
    \/ _start(t)
    \/ _restart(t)
    \/ _get_console_log(t)
    \/ get_cluster_capabilities(t)
    \/ login(t)
    \/ logout(t)
    \/ _eject_virtual_media(t)
    \/ assert_iso_http_url(t)
    \/ _change_boot_order_once(t)
    \/ deploy_power_off(t)
    \/ reset(t)
    \/ _insert_virtual_media(t)
    \/ check_till_timeout(t)
    \/ _enable_serial_console(t)
    \/ esc_patch(t)
    \/ esc_verify(t)
    \/ stop_power_state(t)
    \/ start_power_state(t)
    \/ get_server_screen_shot(t)
    \/ write_screenshot(t)
    \/ get_serial_console_log(t)
    \/ get_system(t)
    \/ _wait_for_completion(t)
    \/ wfc_loop(t)

\* operations run one after another, on one thread of control
Next ==
    /\ \E t \in Sequential : Step(t)
    /\ UNCHANGED << shadow, mark, phase >>

Spec == Init /\ [][Next]_vars

\* every request returns and the clock advances: a running operation takes its
\* next step.  Whether another operation is ever called is up to the caller.
Proceed ==
    /\ \E t \in Sequential : th[t].pc # << >> /\ Step(t)
    /\ UNCHANGED << shadow, mark, phase >>

LiveSpec == Spec /\ WF_vars(Proceed)

\* two callers share the controller: one starts, stops or restarts the
\* machine while the other fetches the console log, statement by statement
\* the answers of the BMC while they overlap: accepted, in progress or
\* refused; a task is asked about once; an empty screenshot
ConcAnswers ==
    \A t \in Threads :
        /\ th[t].response.status \in {NoResponse.status, 200, 202, 500}
        /\ th[t].task.retry_after = NoRetry
        /\ th[t].nquery <= 1
        /\ th[t].response.shot = << >>

ConcNext ==
    /\ \/ th[1].op = "" /\ _stop(1)
       \/ th[1].op = "" /\ _start(1)
       \/ th[1].op = "" /\ _restart(1)
       \/ th[2].op = "" /\ _get_console_log(2)
       \/ \E t \in Threads :
             \/ login_client(t)
             \/ login_session(t)
             \/ logout(t)
             \/ stop_power_state(t)
             \/ start_power_state(t)
             \/ reset(t)
             \/ get_server_screen_shot(t)
             \/ write_screenshot(t)
             \/ get_serial_console_log(t)
             \/ check_till_timeout(t)
             \/ _wait_for_completion(t)
             \/ wfc_loop(t)
    /\ ConcAnswers'
    /\ UNCHANGED << shadow, mark, phase >>

ConcSpec == Init /\ [][ConcNext]_vars

-----------------------------------------------------------------------------
(* Vocabulary of the properties *)

Last(q) == q[Len(q)]
Indices(k) == {i \in 1..Len(log) : log[i].k = k}
Running(t) == th[t].pc # << >>
Finished(t) == th[t].pc = << >> /\ th[t].outcome # "none"
\* _wait_for_completion has just returned or raised in thread t
Waited(t) == th[t].waited # ""
\* the response it was given was in-progress, so a monitor was queried
Monitored(t) == th[t].nquery > 0

-----------------------------------------------------------------------------
(* C1: deploy sends its requests in the order eject, boot-override import,  *)
(* ForceOff (unless already Off), wait until the power state reads Off,    *)
(* insert media, enable console, On, wait until On: the requests other     *)
(* than power-state queries come in that order, and the request just       *)
(* before the insert is a power-state query that answered Off.             *)

DeployRank(e) ==
    CASE e.k = "login" -> 0
      [] e.k = "eject" -> 1
      [] e.k = "import" -> 2
      [] e.k = "reset" /\ e.a = "ForceOff" -> 3
      [] e.k = "insert" -> 5
      [] e.k \in {"get_attributes", "patch_attributes"} -> 6
      [] e.k = "reset" /\ e.a = "On" -> 7
      [] e.k = "logout" -> 9
      [] OTHER -> 10

C1_DeployOrder ==
    \A t \in Threads : th[t].op = "deploy" =>
        /\ \A i, j \in 1..Len(log) :
              (i < j /\ log[i].k # "get_power_state"
                     /\ log[j].k # "get_power_state")
              => DeployRank(log[i]) <= DeployRank(log[j])
        /\ \A i \in Indices("insert") :
              i > 1 /\ log[i - 1].k = "get_power_state" /\ log[i - 1].a = "Off"

(* C2: an operation that logged in and returned normally has logged out    *)
(* exactly once, also when it returned early.                              *)

C2_LogoutPaired ==
    \A t \in Threads :
        (th[t].outcome = "returned" /\ Indices("login") # {})
        => Cardinality(Indices("logout")) = 1

(* C3: with operations run one after another, at most one session is live  *)
(* on the BMC, and none of an earlier operation is live at a login.        *)

C3_OneLiveSession ==
    /\ Cardinality(live) <= 1
    /\ lastReq.k = "login" => live \subseteq {lastReq.s}

(* C4: every request other than login is sent on a live session, after the *)
(* operation's own login and not after its logout.                         *)

C4_RequestsInsideSession ==
    /\ lastReq.k \notin {"", "login"} => lastReq.live
    /\ log # << >> =>
          /\ log[1].k = "login"
          /\ lastReq.s = log[1].s
          /\ \A i \in 1..Len(log) :
                /\ log[i].live
                /\ log[i].s = log[1].s
                /\ log[i].k = "login" => i = 1
                /\ log[i].k = "logout" => i = Len(log)

\* deploy has run to its end and returned, and its last request is the logout
C4_Witness ==
    /\ th[1].op = "deploy"
    /\ th[1].outcome = "returned"
    /\ Len(log) > 8
    /\ Last(log).k = "logout"
    /\ lastReq.k = "logout"

(* C5: when deploy fails for want of an ISO URL, no request has been sent   *)
(* to the BMC.                                                             *)

C5_NoRequestWithoutIso ==
    \A t \in Threads :
        (th[t].op = "deploy" /\ th[t].outcome = "AssertionError")
        => log = << >>

(* C6: when the response was in-progress and the task has ended, the poller *)
(* returns normally exactly if the task's final status is 200, 202 or 204, *)
(* and otherwise raises an error that carries that status.                 *)

C6_FinalStatusDecides ==
    \A t \in Threads :
        (Waited(t) /\ Monitored(t) /\ ~is_processing(th[t].task)) =>
            /\ th[t].waited = "returned" <=> th[t].task.status \in OkStatuses
            /\ th[t].waited = "raised" => th[t].err = th[t].task.status

(* C7: the poller never returns normally while the task is in progress: if *)
(* the task is still in progress when the timeout has passed, it raises.   *)

C7_TimeoutRaises ==
    \A t \in Threads :
        (Waited(t) /\ Monitored(t) /\ is_processing(th[t].task)) =>
            /\ th[t].elapsed >= Timeout
            /\ th[t].waited = "raised"

(* C8: a monitor that reports in-progress N times and then 200, before the *)
(* timeout, makes the poller return normally after N sleeps and N + 1      *)
(* queries; each sleep lasts the retry interval if the task gave one, and  *)
(* 5 seconds otherwise.                                                    *)

C8_Counts(t) ==
    (Waited(t) /\ Monitored(t) /\ th[t].task.status = 200
               /\ th[t].elapsed < Timeout) =>
        /\ th[t].waited = "returned"
        /\ th[t].nsleep = th[t].nproc
        /\ th[t].nquery = th[t].nproc + 1

C8_SleepsAsHinted ==
    \A t \in Threads :
        /\ C8_Counts(t)
        /\ th[t].nsleep > 0 =>
              th[t].slept = IF th[t].hint # NoRetry THEN th[t].hint
                            ELSE DefaultSleep

\* C8 as amended: a retry interval of 0 counts as none and the sleep lasts
\* 5 seconds
C8_SleepsAsHintedUnlessZero ==
    \A t \in Threads :
        /\ C8_Counts(t)
        /\ th[t].nsleep > 0 =>
              th[t].slept = IF th[t].hint \notin {NoRetry, 0} THEN th[t].hint
                            ELSE DefaultSleep

\* two in-progress reports, the second with a retry interval, then 200
C8_Witness ==
    /\ Waited(1)
    /\ th[1].waited = "returned"
    /\ th[1].task.status = 200
    /\ th[1].nproc = 2
    /\ th[1].nsleep = 2
    /\ th[1].hint = 300
    /\ th[1].elapsed = 305

(* C9: reset(op) sends one reset request with ResetType = op; it returns    *)
(* normally when the terminal status is 200, 202 or 204 and raises an      *)
(* error carrying the status otherwise.                                    *)

TerminalStatus(t) ==
    IF Monitored(t) THEN th[t].task.status ELSE th[t].response.status

ResetOf(op) ==
    CASE op = "start" -> {"On"}
      [] op = "stop" -> {"ForceOff"}
      [] op = "restart" -> {"ForceRestart"}
      [] OTHER -> {"On", "ForceOff"}

C9_ResetOutcome ==
    \A t \in Threads : th[t].op # "" =>
        /\ \A i \in Indices("reset") : log[i].a \in ResetOf(th[t].op)
        /\ th[t].op \in {"start", "stop", "restart"} =>
              Cardinality(Indices("reset")) <= 1
        /\ (Waited(t) /\ Last(log).k = "reset") =>
              IF TerminalStatus(t) \in OkStatuses
              THEN th[t].waited = "returned"
              ELSE th[t].waited = "raised" /\ th[t].err = TerminalStatus(t)

(* C10: _eject_virtual_media returns normally whatever status the BMC gives *)
(* the eject; a status other than 200, 202, 204 keeps the response away    *)
(* from the poller, and one of those sends it through the poller once.     *)

C10_EjectNeverFails ==
    \A t \in Threads :
        (th[t].op # "" /\ log # << >> /\ Last(log).k = "eject") =>
            /\ th[t].outcome \in {"running", "AssertionError"}
            /\ th[t].response.status \notin OkStatuses =>
                  /\ ~Waited(t)
                  /\ ~Monitored(t)
                  /\ ~At(t, "_wait_for_completion")
                  /\ ~At(t, "wfc_loop")
            /\ (th[t].response.status \in OkStatuses
                /\ At(t, "assert_iso_http_url")) => th[t].waited = "returned"
            /\ th[t].waited # "raised"

\* the BMC answered the eject with 404 and deploy goes on
C10_Witness ==
    /\ log # << >>
    /\ Last(log).k = "eject"
    /\ th[1].response.status = 404
    /\ At(1, "assert_iso_http_url")

(* C11: a hibernate stop raises at once: no login, no request of any kind,  *)
(* nothing left to run.                                                    *)

C11_HibernateRaisesAtOnce ==
    \A t \in Threads :
        (th[t].op = "stop" /\ th[t].mode = "Hibernate") =>
            /\ th[t].outcome = "NotImplementedError"
            /\ th[t].pc = << >>
            /\ log = << >>
            /\ lastReq = NoReq

\* a hibernate stop asked of a controller whose earlier operation left a session
C11_Witness ==
    /\ th[1].op = "stop"
    /\ th[1].mode = "Hibernate"
    /\ th[1].outcome = "NotImplementedError"
    /\ nops = 2
    /\ live # {}

(* C12: _enable_serial_console.  A first read of Disabled is followed by    *)
(* one PATCH and a second read; the call succeeds when the second read     *)
(* says Enabled and raises when it does not.  A first read of Enabled      *)
(* sends no PATCH and the call succeeds.                                   *)

Gets == Indices("get_attributes")
Patches == Indices("patch_attributes")
FirstGet == CHOOSE i \in Gets : \A j \in Gets : i <= j
\* _enable_serial_console raised: the operation ended in its check
EscRaised(t) ==
    /\ th[t].outcome = "LisaException"
    /\ Last(log).k = "get_attributes"
\* _enable_serial_console returned: deploy is at its next call
EscReturned(t) ==
    /\ th[t].outcome = "running"
    /\ At(t, "reset")
    /\ Last(log).k = "get_attributes"

C12_AfterDisabled(t) ==
    log[FirstGet].a = "Disabled" =>
        /\ Cardinality(Patches) <= 1
        /\ Len(log) > FirstGet => log[FirstGet + 1].k = "patch_attributes"
        /\ Len(log) > FirstGet + 1 =>
              /\ log[FirstGet + 2].k = "get_attributes"
              /\ Len(log) = FirstGet + 2 =>
                    IF log[FirstGet + 2].a = "Enabled"
                    THEN EscReturned(t) ELSE EscRaised(t)

C12_EnableCapture ==
    \A t \in Threads : (th[t].op = "deploy" /\ Gets # {}) =>
        /\ C12_AfterDisabled(t)
        /\ log[FirstGet].a = "Enabled" =>
              /\ Patches = {}
              /\ ~EscRaised(t)

\* C12 as amended: after a first read of Enabled the attributes are read a
\* second time too, and the call succeeds or raises by that second read
C12_EnableCaptureByLastRead ==
    \A t \in Threads : (th[t].op = "deploy" /\ Gets # {}) =>
        /\ C12_AfterDisabled(t)
        /\ log[FirstGet].a = "Enabled" =>
              /\ Patches = {}
              /\ Len(log) > FirstGet =>
                    /\ log[FirstGet + 1].k = "get_attributes"
                    /\ Len(log) = FirstGet + 1 =>
                          IF log[FirstGet + 1].a = "Enabled"
                          THEN EscReturned(t) ELSE EscRaised(t)

\* Disabled, PATCH, Enabled: the console is enabled and deploy goes on
C12_Witness ==
    /\ th[1].op = "deploy"
    /\ Gets # {}
    /\ log[FirstGet].a = "Disabled"
    /\ Len(log) = FirstGet + 2
    /\ log[FirstGet + 1].k = "patch_attributes"
    /\ log[FirstGet + 2].a = "Enabled"
    /\ EscReturned(1)

(* C13: no redundant reset.  Start sends On only after reading a power      *)
(* state other than On, Stop sends ForceOff only after reading one other   *)
(* than Off, deploy sends ForceOff exactly if the state it read after the  *)
(* boot override is not Off; each of these resets is sent at most once.    *)

Resets(a) == {i \in Indices("reset") : log[i].a = a}
\* the reset at i follows at once a power-state query that did not read state
AfterReadingNot(i, state) ==
    /\ i > 1
    /\ log[i - 1].k = "get_power_state"
    /\ log[i - 1].a # state

C13_NoRedundantReset ==
    \A t \in Threads :
        /\ th[t].op = "start" =>
              /\ Cardinality(Indices("reset")) <= 1
              /\ \A i \in Indices("reset") :
                    log[i].a = "On" /\ AfterReadingNot(i, "On")
        /\ th[t].op = "stop" =>
              /\ Cardinality(Indices("reset")) <= 1
              /\ \A i \in Indices("reset") :
                    log[i].a = "ForceOff" /\ AfterReadingNot(i, "Off")
        /\ th[t].op = "deploy" =>
              /\ Cardinality(Resets("ForceOff")) <= 1
              /\ Cardinality(Resets("On")) <= 1
              /\ \A i \in Resets("ForceOff") : AfterReadingNot(i, "Off")
              /\ \A i \in Indices("import") :
                    Len(log) > i + 1 =>
                        /\ log[i + 1].k = "get_power_state"
                        /\ log[i + 1].a # "Off" <=>
                              (log[i + 2].k = "reset"
                               /\ log[i + 2].a = "ForceOff")

\* Stop found the machine On and has sent its one ForceOff
C13_Witness ==
    /\ th[1].op = "stop"
    /\ Len(log) = 3
    /\ log[2].k = "get_power_state"
    /\ log[2].a = "On"
    /\ log[3].k = "reset"
    /\ log[3].a = "ForceOff"

(* C14: deploy sends reset On only after a power-state query has read Off,  *)
(* and returns normally only after a query sent after the On request has   *)
(* read On.  If no query ever reads Off, deploy fails and On is not sent.  *)

Reads(state) == {i \in Indices("get_power_state") : log[i].a = state}

C14_OnOnlyAfterOff ==
    \A t \in Threads : th[t].op = "deploy" =>
        /\ \A i \in Resets("On") : \E j \in Reads("Off") : j < i
        /\ th[t].outcome = "returned" =>
              \E i \in Resets("On") : \E j \in Reads("On") : i < j
        /\ (Finished(t) /\ Reads("Off") = {}) =>
              /\ th[t].outcome \notin {"returned", "running"}
              /\ Resets("On") = {}

\* ForceOff was needed, Off was then read, and deploy returned after reading On
C14_Witness ==
    /\ th[1].op = "deploy"
    /\ th[1].outcome = "returned"
    /\ Resets("ForceOff") # {}
    /\ \E i \in Resets("On") : \E j \in Reads("On") : i < j

\* the wait for Off ran out: deploy failed and never sent On
C14_WitnessTimeout ==
    /\ th[1].op = "deploy"
    /\ th[1].outcome = "TimeoutError"
    /\ Reads("Off") = {}
    /\ Indices("insert") # {}

(* C15: get_serial_console_log polls the status of the export until it is  *)
(* 200: it returns a body only from a response whose status is 200, and    *)
(* when the immediate response is not 200 it asks the BMC for the status   *)
(* again, so it never gives up with the export POST as its last request.   *)

C15_ExportStatusPolled ==
    \A t \in Threads : (th[t].op = "console" /\ Indices("export_serial") # {}) =>
        /\ th[t].outcome = "returned" => th[t].response.status = 200
        /\ th[t].outcome = "TimeoutError" => lastReq.k # "export_serial"

(* C16: once a step of deploy has raised, deploy sends no further request   *)
(* (no later step, no compensating eject or power action) and the error is *)
(* the outcome the caller gets: nothing changes until the next operation   *)
(* is called.                                                              *)

Failed(t) == th[t].outcome \notin {"none", "running", "returned"}

C16_FailFast ==
    [][\A t \in Threads : (th[t].op = "deploy" /\ Failed(t)) =>
          \/ nops' > nops
          \/ /\ log' = log
             /\ lastReq' = lastReq
             /\ th'[t] = th[t]]_vars

\* the caller holds the error of deploy and no step of deploy remains
C16_ErrorReachesCaller ==
    \A t \in Threads : (th[t].op = "deploy" /\ Failed(t)) => th[t].pc = << >>

\* the power-on was rejected with the media inserted: deploy has failed
C16_Witness ==
    /\ th[1].op = "deploy"
    /\ th[1].outcome = "LisaException"
    /\ Indices("insert") # {}
    /\ Last(log).k = "reset" /\ Last(log).a = "On"
    /\ nops = MaxOps - 1

(* C19: with an output path, the bytes fetch-console-log writes to the      *)
(* screenshot file are the base64 decoding of the data the export-         *)
(* screenshot action returned: encoding the file gives that data back.     *)
(* Without an output path no file is written.                              *)

C19_ScreenshotRoundTrip ==
    \A t \in Threads : th[t].op = "console" =>
        /\ th[t].mode = "None" => ~img_file.exists
        /\ img_file.exists => Indices("export_screenshot") # {}
        /\ (th[t].mode = "saved_path" /\ At(t, "get_serial_console_log")) =>
              /\ img_file.exists
              /\ b64encode(img_file.bytes) = th[t].response.shot

\* a screenshot of two bytes, sent padded, has been written
C19_Witness ==
    /\ th[1].op = "console"
    /\ At(1, "get_serial_console_log")
    /\ img_file = [exists |-> TRUE, bytes |-> << 77, 255 >>]
    /\ th[1].response.shot = << 19, 31, 60, B64Pad >>

\* a call without an output path has returned the log
C19_WitnessNoPath ==
    /\ th[1].op = "console"
    /\ th[1].mode = "None"
    /\ th[1].outcome = "returned"

(* C20: fetch-console-log sends login, export-screenshot (exactly when an   *)
(* output path was given, its response awaited through the task poller),   *)
(* serial-data-export, logout, in that order and nothing else; when it     *)
(* returns, all of them were sent and the export answered 200.             *)

ConsoleRequests(mode) ==
    IF mode = "saved_path"
    THEN << "login", "export_screenshot", "export_serial", "logout" >>
    ELSE << "login", "export_serial", "logout" >>

C20_ConsoleOrder ==
    \A t \in Threads : th[t].op = "console" =>
        LET want == ConsoleRequests(th[t].mode)
        IN  /\ Len(log) <= Len(want)
            /\ \A i \in 1..Len(log) : log[i].k = want[i]
            /\ At(t, "write_screenshot") => th[t].waited = "returned"
            /\ th[t].outcome = "returned" =>
                  /\ Len(log) = Len(want)
                  /\ th[t].response.status = 200

\* a call with an output path has returned after all four requests
C20_Witness ==
    /\ th[1].op = "console"
    /\ th[1].mode = "saved_path"
    /\ th[1].outcome = "returned"
    /\ Len(log) = 4
    /\ img_file.exists

(* C17: whatever the BMC answers (tasks that never finish, a power state    *)
(* that never converges, an export that never reads 200), every operation  *)
(* that has been called reaches a terminal outcome, a return or an error.  *)

C17_NoOperationBlocksForever ==
    \A t \in Threads : Running(t) ~> Finished(t)

\* the task was still in progress after more than MaxPolls answers when the
\* deadline ended the wait
C17_Witness ==
    /\ Waited(1)
    /\ is_processing(th[1].task)
    /\ th[1].nproc > MaxPolls
    /\ th[1].elapsed >= Timeout

\* the wait for a power state that never converged has timed out
C17_WitnessPower ==
    /\ th[1].op = "deploy"
    /\ th[1].outcome = "TimeoutError"
    /\ Last(log).k = "get_power_state"

\* the sleep counter's cap is never what stops the loop
C17_SleepsBelowCap ==
    \A t \in Threads : At(t, "wfc_loop") /\ LoopCondition(th[t])
                         => th[t].nsleep < MaxSleeps

-----------------------------------------------------------------------------
(* An operation that failed is called again.  The retry runs on the         *)
(* controller the failed call left behind; a first invocation of the same  *)
(* operation runs on a controller as constructed.  The two go step by step *)
(* and the retry gets the answers the first invocation got.                *)

\* what a step of the running controller shows: the thread, the request it
\* sent and whether that went out on the session opened last, the file
Obs ==
    [th |-> th[1], k |-> lastReq.k, a |-> lastReq.a, live |-> lastReq.live,
     fresh |-> lastReq.k = "" \/ lastReq.s = nsessions, n |-> Len(log),
     file |-> img_file]

\* the part of it the program did not choose: the caller's arguments and what
\* the BMC answered
EnvOf(o) ==
    [op |-> o.th.op, mode |-> o.th.mode, response |-> o.th.response,
     task |-> o.th.task,
     reading |-> IF o.k \in {"get_power_state", "get_attributes"}
                 THEN o.a ELSE "",
     rejected |-> o.th.outcome = "AuthenticationError"]

\* the running controller is set aside and the other one runs
Swap(next) ==
    /\ th' = shadow.th
    /\ redfish_instance' = shadow.redfish_instance
    /\ live' = shadow.live
    /\ nsessions' = shadow.nsessions
    /\ log' = shadow.log
    /\ lastReq' = shadow.lastReq
    /\ nops' = shadow.nops
    /\ img_file' = shadow.img_file
    /\ shadow' = [th |-> th, redfish_instance |-> redfish_instance,
                  live |-> live, nsessions |-> nsessions, log |-> log,
                  lastReq |-> lastReq, nops |-> nops, img_file |-> img_file]
    /\ phase' = next
    /\ UNCHANGED << iso_http_url, mark >>

\* the call that fails: one operation on this controller
FailingCall ==
    /\ phase = "first"
    /\ Step(1)
    /\ nops' > nops => nops = 0
    /\ UNCHANGED << shadow, mark, phase >>

\* it has failed: from here on a new controller runs next to this one
CallAgain ==
    /\ phase = "first"
    /\ th[1].pc = << >> /\ Failed(1)
    /\ Swap("lead")

\* a step of the first invocation, on the new controller
FirstInvocation ==
    /\ phase = "lead"
    /\ Step(1)
    /\ nops' > nops => /\ nops = 0
                       /\ th'[1].op = shadow.th[1].op
                       /\ th'[1].mode = shadow.th[1].mode
    /\ mark' = Obs'
    /\ phase' = "led"
    /\ UNCHANGED shadow

\* the same step of the retry, given the same answers
Retry ==
    /\ phase = "follow"
    /\ Step(1)
    /\ EnvOf(Obs') = EnvOf(mark)
    /\ phase' = "followed"
    /\ UNCHANGED << shadow, mark >>

RetryNext ==
    \/ FailingCall
    \/ CallAgain
    \/ FirstInvocation
    \/ phase = "led" /\ Swap("follow")
    \/ Retry
    \/ phase = "followed" /\ Swap("lead")

RetrySpec == Init /\ [][RetryNext]_vars

(* C18: a failed operation leaves nothing behind that the next call reads: *)
(* called again on the same controller, the operation opens a new session  *)
(* with its first request and, given the answers a first invocation gets,  *)
(* sends the same requests and ends the same way, step for step.           *)

C18_RetryLikeFirst ==
    /\ phase = "follow" => ENABLED Retry
    /\ phase = "followed" =>
          /\ Obs = mark
          /\ log # << >> => /\ log[1].k = "login"
                            /\ log[1].s > shadow.nsessions
                            /\ \A i \in 1..Len(log) : log[i].s = log[1].s

\* the retry of a deploy that timed out waiting for Off has gone the way of
\* a first invocation and timed out too, the session of the failed call
\* still open
C18_Witness ==
    /\ phase = "followed"
    /\ th[1].op = "deploy"
    /\ th[1].outcome = "TimeoutError"
    /\ shadow.th[1].outcome = "TimeoutError"
    /\ Len(log) > 3
    /\ live = {1, 2}

(* C22: given a response that is not in-progress, the poller queries no     *)
(* monitor, does not sleep and sends no request; it returns normally when  *)
(* the response status is 200, 202 or 204 and otherwise raises an error    *)
(* that carries the status.                                                *)

C22_NotInProgressDecidedAtOnce ==
    \A t \in Threads : (Waited(t) /\ ~is_processing(th[t].response)) =>
        /\ th[t].nquery = 0
        /\ th[t].nsleep = 0
        /\ th[t].elapsed = 0
        /\ lastReq = Last(log)
        /\ th[t].waited = "returned" <=> th[t].response.status \in OkStatuses
        /\ th[t].waited = "raised" =>
              /\ th[t].outcome = "LisaException"
              /\ th[t].err = th[t].response.status

\* a reset answered 500 at once has made the poller raise
C22_Witness ==
    /\ th[1].waited = "raised"
    /\ th[1].response.status = 500
    /\ th[1].err = 500
    /\ Last(log).k = "reset"

\* an insert answered 204 at once has made it return
C22_WitnessReturn ==
    /\ th[1].waited = "returned"
    /\ th[1].response.status = 204
    /\ Last(log).k = "insert"

(* C21: against a cooperative BMC (the ISO URL is set, the login and every *)
(* request are accepted with a success status, every task finishes, the    *)
(* power state reads Off and then On within the waits' timeouts) deploy    *)
(* eventually returns normally and logout is the last request it sent.     *)

\* the BMC, or the runbook, has failed one of these conditions in deploy
Uncooperative(t) ==
    \/ iso_http_url = ""
    \/ th[t].outcome \in {"AuthenticationError", "TimeoutError"}
    \/ th[t].response.status \notin {NoResponse.status} \cup OkStatuses
    \/ is_processing(th[t].task) /\ th[t].elapsed >= Timeout

DeployDone(t) ==
    /\ th[t].outcome = "returned"
    /\ Last(log).k = "logout"

C21_DeployReturns ==
    \A t \in Threads :
        (th[t].op = "deploy" /\ Running(t)) ~>
            (th[t].op = "deploy" /\ (DeployDone(t) \/ Uncooperative(t)))

\* the read that checks console capture did not say Enabled
CaptureNotEnabled ==
    /\ Cardinality(Gets) >= 2
    /\ Last(log).k = "get_attributes"
    /\ Last(log).a # "Enabled"

\* C21 as amended: a cooperative BMC also reports console capture as
\* Enabled when deploy checks it
C21_DeployReturnsIfCaptureEnabled ==
    \A t \in Threads :
        (th[t].op = "deploy" /\ Running(t)) ~>
            (th[t].op = "deploy" /\ (\/ DeployDone(t)
                                     \/ Uncooperative(t)
                                     \/ CaptureNotEnabled))

\* deploy has returned after ForceOff, a task that was polled, and a PATCH of
\* console capture, with nothing uncooperative on the way
C21_Witness ==
    /\ th[1].op = "deploy"
    /\ DeployDone(1)
    /\ Resets("ForceOff") # {}
    /\ Patches # {}
    /\ Len(log) = 13

(* C23: the controller has one session handle, which login overwrites.     *)
(* When two operations overlap, every request sent after a later login     *)
(* goes out on the session that login opened (or on the new client before  *)
(* it has logged in), never on the sender's own earlier session; and a     *)
(* session whose handle was overwritten before its logout stays open for   *)
(* ever.                                                                   *)

\* the logins that opened a session
Logins == {i \in Indices("login") : log[i].s # 0}
\* the sessions opened before request i
OpenedBefore(i) == {log[j].s : j \in {j \in Logins : j < i}}
\* the one opened last among them
NewestOf(S) == {x \in S : \A y \in S : y <= x}

C23_SharedHandle ==
    /\ \A i \in 1..Len(log) : log[i].k # "login" =>
          log[i].s \in {0} \cup NewestOf(OpenedBefore(i))
    /\ \A i \in Logins : \A j \in Logins :
          (/\ i < j
           /\ \A k \in Indices("logout") : k < j => log[k].s # log[i].s)
          => log[i].s \in live

\* Stop logged in first and read the power state on its own session; the
\* console call then logged in and out; Stop sent its reset and its logout on
\* the console call's session, already logged out, and Stop's own session is
\* still open at the end
C23_Witness ==
    /\ Len(log) >= 6
    /\ th[1].op = "stop" /\ th[2].op = "console"
    /\ \A t \in Threads : Finished(t)
    /\ log[1].k = "login" /\ log[1].s = 1
    /\ log[2].k = "get_power_state" /\ log[2].s = 1
    /\ log[3].k = "login" /\ log[3].s = 2
    /\ \E i \in Indices("logout") : \E j \in Indices("reset") :
          /\ i < j
          /\ log[i].s = 2
          /\ log[j].s = 2
          /\ ~log[j].live
    /\ Last(log).k = "logout" /\ Last(log).s = 2 /\ ~Last(log).live
    /\ live = {1}

\* between the two statements of another caller's login, a request goes out
\* on a client that has not logged in
C23_WitnessNoSession ==
    /\ Len(log) >= 2
    /\ Last(log).k = "logout"
    /\ Last(log).s = 0
    /\ live # {}

====
